---- MODULE Spec2Model ----
(***************************************************************************)
(* Model of mobx-react's class-component observer                          *)
(* (packages/mobx-react/src/observerClass.ts and observer.tsx).            *)
(*                                                                         *)
(* One component instance is modelled with its administration record, the *)
(* mobx reaction it owns, the finalization-registry registration, one      *)
(* external observable (flag) and the notify callback (scheduleUpdate).    *)
(* MobxObserverStore and the wrap-time checks of observer() /              *)
(* makeClassComponentObserver() have their own specifications.             *)
(***************************************************************************)
EXTENDS Naturals, Integers, Sequences, FiniteSets, TLC

VARIABLES
    admin,            \* component[administrationSymbol]
    staticRendering,  \* isUsingStaticRendering()
    registered,       \* instance is registered in observerFinalizationRegistry
    flag,             \* history: value of an external observable
    nextSymbol,       \* number of Symbol() calls made so far
    out,              \* the last handler call and what it did
    sinceMount,       \* history: notify calls since the last componentDidMount
    unconsumed,       \* history: an invalidation not yet consumed by a render
    commit,           \* history: observerSCU and the writes that followed it
    tracked,          \* which of flag and storeLog are recorded
    ownRender,        \* the render property prototype.render froze on the instance
    devBuild,         \* __DEV__
    store,            \* the wrapper's MobxObserverStore
    storeLog,         \* history: the last calls the store's users made on it
    wrap              \* a component handed to observer()

vars == <<admin, staticRendering, registered, flag, nextSymbol, out,
          sinceMount, unconsumed, commit, tracked, ownRender, devBuild,
          store, storeLog, wrap>>

-----------------------------------------------------------------------------
(* Bounds *)

\* objects are 1..MaxObj; 0 stands for undefined
MaxObj == 2
\* Symbol() may be called at most MaxSymbols times in a behaviour
MaxSymbols == 2
\* notify calls are counted up to MaxCount
MaxCount == 2
\* listeners of the store are 1..MaxListeners
MaxListeners == 2
\* the store history keeps the last LogLen calls
LogLen == 2
\* at most MaxInstances instances of a wrapped component are created
MaxInstances == 2

-----------------------------------------------------------------------------
(* Values *)

Undefined == 0
Objects == 1..MaxObj
Values == {Undefined} \cup Objects
Keys == {"props", "state", "context"}
Atoms == Keys \cup {"ext"}
Symbols == 0..MaxSymbols

\* the own enumerable members of an object: objects 1 and 2 have equal
\* members, the next three have other members, and so on
Content(o) == o \div 3

\* what an original render raises: nothing, an Error object (or any other
\* truthy value), or a falsy value (throw undefined, throw null, throw 0)
Raised == {"none", "error", "falsy"}

\* the sets of atoms an original render may read
ReadSets == {{}, {"ext"}, Keys, Atoms}

\* a render that reads no observable, or all of them
AllOrNone == {{}, Atoms}

\* utils/utils shallowEqual: identical, or both objects with equal members
shallowEqual(a, b) ==
    \/ a = b
    \/ /\ a # Undefined
       /\ b # Undefined
       /\ Content(a) = Content(b)

NoReaction == [exists |-> FALSE, observing |-> {}, invalidated |-> FALSE]

\* getAdministration: the lazily created record
getAdministration ==
    [ reaction |-> NoReaction,
      mounted |-> FALSE,
      scheduleUpdate |-> FALSE,
      state |-> Undefined,
      props |-> Undefined,
      context |-> Undefined,
      changedVariables |-> {},
      unchangedVariables |-> {},
      pendingStateVersion |-> 0,
      stateVersion |-> 0 ]

Stale(adm) == adm.pendingStateVersion # adm.stateVersion

-----------------------------------------------------------------------------
(* MobxObserverStore *)

Listeners == 1..MaxListeners

\* the symbol a store is constructed with, which is no version of an instance
OwnSymbol == -1

\* new MobxObserverStore(): value is the store's own symbol, no listeners;
\* closures are the listeners whose unsubscribe function has been handed out
NewStore == [value |-> OwnSymbol, listeners |-> {}, closures |-> {}]

Silent == [l \in Listeners |-> 0]

\* notifyListeners: each listener of the set is called once
notifyListeners(st) == [l \in Listeners |-> IF l \in st.listeners THEN 1 ELSE 0]

\* setValue that notifies without comparing the tokens
setValue_NoCompare(st, newValue) ==
    LET st1 == [st EXCEPT !.value = newValue] IN
    [store |-> st1, heard |-> notifyListeners(st1)]

\* setValue: the store after the call and how often each listener was called
setValue(st, newValue) ==
    IF st.value # newValue
    THEN LET st1 == [st EXCEPT !.value = newValue] IN
         [store |-> st1, heard |-> notifyListeners(st1)]
    ELSE [store |-> st, heard |-> Silent]

getValue(st) == st.value

subscribe(st, listener) ==
    [st EXCEPT !.listeners = @ \cup {listener}, !.closures = @ \cup {listener}]

\* the function subscribe returned for listener
unsubscribe(st, listener) == [st EXCEPT !.listeners = @ \ {listener}]

-----------------------------------------------------------------------------
(* A handler call works on a machine record m:                             *)
(*   adm       the administration record                                   *)
(*   sym       the number of symbols minted                                *)
(*   reg       registered in the finalization registry                     *)
(*   own       the instance's own render property                          *)
(*   store     the wrapper's store, whose setValue is the scheduleUpdate   *)
(*             callback the wrapper registers                              *)
(*   heard     how often this call called each listener of the store      *)
(*   forwarded what this call handed to the ref of the wrapper's caller    *)
(*   notified  the scheduleUpdate invocations made by this call, each with *)
(*             the token passed and admin.mounted at that moment           *)
(*   reported  the atoms on which reportChanged was called                 *)
(*   fired     the reaction callback ran                                   *)
(*   raised    what the original render raised inside the call            *)
(*   thrown    the exception the call raised to its caller                 *)
(*   ret       the value the call returned                                 *)

NotForwarded == [how |-> "none", instance |-> FALSE]

Machine(adm, sym, reg, own, st) ==
    [ adm |-> adm, sym |-> sym, reg |-> reg, own |-> own, store |-> st,
      heard |-> Silent, forwarded |-> NotForwarded, notified |-> <<>>,
      reported |-> {}, fired |-> FALSE, raised |-> "none", thrown |-> "none",
      ret |-> "undefined" ]

\* admin.pendingStateVersion = Symbol()
MintPending(m) ==
    [m EXCEPT !.sym = m.sym + 1,
              !.adm.pendingStateVersion = m.sym + 1]

\* admin.scheduleUpdate?.(admin.pendingStateVersion), where the callback is
\* the store.setValue that setRef registered
CallScheduleUpdate(m) ==
    IF m.adm.scheduleUpdate
    THEN LET r == setValue(m.store, m.adm.pendingStateVersion) IN
         [m EXCEPT !.notified =
                      Append(@, [token |-> m.adm.pendingStateVersion,
                                 mounted |-> m.adm.mounted]),
                   !.store = r.store,
                   !.heard = [l \in Listeners |-> @[l] + r.heard[l]]]
    ELSE m

\* createReaction's callback without the early return on a stale instance
ReactionCallback_NoStaleReturn(m) ==
    LET m0 == [m EXCEPT !.fired = TRUE]
        m1 == MintPending(m0)
    IN IF m1.adm.mounted THEN CallScheduleUpdate(m1) ELSE m1

\* createReaction's callback without the admin.mounted test
ReactionCallback_NoMountedTest(m) ==
    LET m0 == [m EXCEPT !.fired = TRUE] IN
    IF Stale(m0.adm)
    THEN m0
    ELSE CallScheduleUpdate(MintPending(m0))

\* createReaction's callback notifying again while the instance is stale
ReactionCallback_NotifiesWhenStale(m) ==
    LET m0 == [m EXCEPT !.fired = TRUE]
        m1 == IF Stale(m0.adm) THEN m0 ELSE MintPending(m0)
    IN IF m1.adm.mounted THEN CallScheduleUpdate(m1) ELSE m1

\* the callback given to new Reaction(...) in createReaction
ReactionCallback(m) ==
    LET m0 == [m EXCEPT !.fired = TRUE] IN
    IF Stale(m0.adm)
    THEN m0
    ELSE LET m1 == MintPending(m0) IN
         IF m1.adm.mounted THEN CallScheduleUpdate(m1) ELSE m1

\* atom.reportChanged(): a reaction that observes the atom and is up to date
\* becomes invalidated and its callback runs, synchronously; a reaction
\* invalidated since it last tracked is not run again
reportChanged(m, atom) ==
    LET m0 == [m EXCEPT !.reported = @ \cup {atom}] IN
    IF /\ m0.adm.reaction.exists
       /\ atom \in m0.adm.reaction.observing
       /\ ~m0.adm.reaction.invalidated
    THEN ReactionCallback([m0 EXCEPT !.adm.reaction.invalidated = TRUE])
    ELSE m0

\* reaction.dispose(): the reaction stops observing; on a missing reaction the
\* member access raises
dispose(m) ==
    IF m.adm.reaction.exists
    THEN [m EXCEPT !.adm.reaction.observing = {},
                   !.adm.reaction.invalidated = FALSE]
    ELSE [m EXCEPT !.thrown = "TypeError"]

\* admin.reaction?.dispose()
OptionalDispose(m) == IF m.adm.reaction.exists THEN dispose(m) ELSE m

\* the setter reporting a change for a value marked unchanged
SetInput_UnchangedReports(m, key, value) ==
    IF value \in m.adm.changedVariables
    THEN reportChanged(
            [m EXCEPT !.adm.changedVariables = @ \ {value},
                      !.adm[key] = value], key)
    ELSE IF value \in m.adm.unchangedVariables
    THEN reportChanged(
            [m EXCEPT !.adm.unchangedVariables = @ \ {value},
                      !.adm[key] = value], key)
    ELSE IF ~shallowEqual(m.adm[key], value)
    THEN reportChanged(MintPending([m EXCEPT !.adm[key] = value]), key)
    ELSE [m EXCEPT !.adm[key] = value]

\* the setter minting a pending version for a value marked unchanged
SetInput_UnchangedMints(m, key, value) ==
    IF value \in m.adm.changedVariables
    THEN reportChanged(
            [m EXCEPT !.adm.changedVariables = @ \ {value},
                      !.adm[key] = value], key)
    ELSE IF value \in m.adm.unchangedVariables
    THEN MintPending([m EXCEPT !.adm.unchangedVariables = @ \ {value},
                               !.adm[key] = value])
    ELSE IF ~shallowEqual(m.adm[key], value)
    THEN reportChanged(MintPending([m EXCEPT !.adm[key] = value]), key)
    ELSE [m EXCEPT !.adm[key] = value]

\* the setter treating every unclassified value as changed
SetInput_NoShallowCompare(m, key, value) ==
    IF value \in m.adm.changedVariables
    THEN reportChanged(
            [m EXCEPT !.adm.changedVariables = @ \ {value},
                      !.adm[key] = value], key)
    ELSE IF value \in m.adm.unchangedVariables
    THEN [m EXCEPT !.adm.unchangedVariables = @ \ {value},
                   !.adm[key] = value]
    ELSE reportChanged(MintPending([m EXCEPT !.adm[key] = value]), key)

\* the setter leaving the marker of a value marked changed in place
SetInput_KeepsMarker(m, key, value) ==
    IF value \in m.adm.changedVariables
    THEN reportChanged([m EXCEPT !.adm[key] = value], key)
    ELSE IF value \in m.adm.unchangedVariables
    THEN [m EXCEPT !.adm.unchangedVariables = @ \ {value},
                   !.adm[key] = value]
    ELSE IF ~shallowEqual(m.adm[key], value)
    THEN reportChanged(MintPending([m EXCEPT !.adm[key] = value]), key)
    ELSE [m EXCEPT !.adm[key] = value]

\* the setter of createObservablePropDescriptor(key)
SetInput(m, key, value) ==
    IF value \in m.adm.changedVariables
    THEN reportChanged(
            [m EXCEPT !.adm.changedVariables = @ \ {value},
                      !.adm[key] = value], key)
    ELSE IF value \in m.adm.unchangedVariables
    THEN [m EXCEPT !.adm.unchangedVariables = @ \ {value},
                   !.adm[key] = value]
    ELSE IF ~shallowEqual(m.adm[key], value)
    THEN reportChanged(MintPending([m EXCEPT !.adm[key] = value]), key)
    ELSE [m EXCEPT !.adm[key] = value]

\* WeakSet.add guarded by `value &&`
AddMarker(set, value) == IF value # Undefined THEN set \cup {value} ELSE set

\* observerSCU minting a pending version whatever it returns
observerSCU_AlwaysMint(m, nextProps, nextState) ==
    LET propsChanged == ~shallowEqual(m.adm.props, nextProps)
        stateChanged == ~shallowEqual(m.adm.state, nextState)
        shouldUpdate == propsChanged \/ stateChanged \/ Stale(m.adm)
        m1 == MintPending(m)
        m2 == IF propsChanged
              THEN [m1 EXCEPT !.adm.changedVariables = AddMarker(@, nextProps)]
              ELSE [m1 EXCEPT !.adm.unchangedVariables = AddMarker(@, nextProps)]
        m3 == IF stateChanged
              THEN [m2 EXCEPT !.adm.changedVariables = AddMarker(@, nextState)]
              ELSE [m2 EXCEPT !.adm.unchangedVariables = AddMarker(@, nextState)]
    IN [m3 EXCEPT !.ret = IF shouldUpdate THEN "true" ELSE "false"]

\* observerSCU deciding on the props and state comparison alone
observerSCU_IgnoresStale(m, nextProps, nextState) ==
    LET propsChanged == ~shallowEqual(m.adm.props, nextProps)
        stateChanged == ~shallowEqual(m.adm.state, nextState)
        shouldUpdate == propsChanged \/ stateChanged
        m1 == IF shouldUpdate THEN MintPending(m) ELSE m
        m2 == IF propsChanged
              THEN [m1 EXCEPT !.adm.changedVariables = AddMarker(@, nextProps)]
              ELSE [m1 EXCEPT !.adm.unchangedVariables = AddMarker(@, nextProps)]
        m3 == IF stateChanged
              THEN [m2 EXCEPT !.adm.changedVariables = AddMarker(@, nextState)]
              ELSE [m2 EXCEPT !.adm.unchangedVariables = AddMarker(@, nextState)]
    IN [m3 EXCEPT !.ret = IF shouldUpdate THEN "true" ELSE "false"]

\* observerSCU never assigning pendingStateVersion
observerSCU_NoMint(m, nextProps, nextState) ==
    LET propsChanged == ~shallowEqual(m.adm.props, nextProps)
        stateChanged == ~shallowEqual(m.adm.state, nextState)
        shouldUpdate == propsChanged \/ stateChanged \/ Stale(m.adm)
        m2 == IF propsChanged
              THEN [m EXCEPT !.adm.changedVariables = AddMarker(@, nextProps)]
              ELSE [m EXCEPT !.adm.unchangedVariables = AddMarker(@, nextProps)]
        m3 == IF stateChanged
              THEN [m2 EXCEPT !.adm.changedVariables = AddMarker(@, nextState)]
              ELSE [m2 EXCEPT !.adm.unchangedVariables = AddMarker(@, nextState)]
    IN [m3 EXCEPT !.ret = IF shouldUpdate THEN "true" ELSE "false"]

observerSCU(m, nextProps, nextState) ==
    LET propsChanged == ~shallowEqual(m.adm.props, nextProps)
        stateChanged == ~shallowEqual(m.adm.state, nextState)
        shouldUpdate == propsChanged \/ stateChanged \/ Stale(m.adm)
        m1 == IF shouldUpdate THEN MintPending(m) ELSE m
        m2 == IF propsChanged
              THEN [m1 EXCEPT !.adm.changedVariables = AddMarker(@, nextProps)]
              ELSE [m1 EXCEPT !.adm.unchangedVariables = AddMarker(@, nextProps)]
        m3 == IF stateChanged
              THEN [m2 EXCEPT !.adm.changedVariables = AddMarker(@, nextState)]
              ELSE [m2 EXCEPT !.adm.unchangedVariables = AddMarker(@, nextState)]
    IN [m3 EXCEPT !.ret = IF shouldUpdate THEN "true" ELSE "false"]

\* setScheduleUpdate only storing the callback
setScheduleUpdate_NoImmediateCall(m, static) ==
    IF static
    THEN m
    ELSE [m EXCEPT !.adm.scheduleUpdate = TRUE]

\* prototype.setScheduleUpdate
setScheduleUpdate(m, static) ==
    IF static
    THEN m
    ELSE LET m1 == [m EXCEPT !.adm.scheduleUpdate = TRUE] IN
         IF Stale(m1.adm) /\ m1.adm.mounted
         THEN CallScheduleUpdate(m1)
         ELSE m1

\* the ref the wrapper's caller passed: none, a callback, a ref object
Refs == {"none", "function", "object"}

\* setRef(instance) of WrappedComponent: the instance (or null, instance =
\* FALSE) is handed to the caller's ref, and store.setValue is registered on
\* an instance
setRef(m, instance, ref, static) ==
    LET m1 == [m EXCEPT !.forwarded =
                  IF ref = "function"
                  THEN [how |-> "called", instance |-> instance]
                  ELSE IF ref = "object"
                  THEN [how |-> "assigned", instance |-> instance]
                  ELSE NotForwarded]
    IN IF instance THEN setScheduleUpdate(m1, static) ELSE m1

\* componentDidMount resynchronizing only when the reaction is missing
componentDidMount_NoStaleTest(m, dev, ownHook, original) ==
    IF dev /\ ownHook
    THEN [m EXCEPT !.thrown = "Error"]
    ELSE LET m1 == [m EXCEPT !.adm.mounted = TRUE, !.reg = FALSE]
             m2 == IF ~m1.adm.reaction.exists
                   THEN CallScheduleUpdate(MintPending(m1))
                   ELSE m1
         IN [m2 EXCEPT !.ret = IF original THEN "original" ELSE "undefined"]

\* componentDidMount resynchronizing only when the instance is stale
componentDidMount_NoReactionTest(m, dev, ownHook, original) ==
    IF dev /\ ownHook
    THEN [m EXCEPT !.thrown = "Error"]
    ELSE LET m1 == [m EXCEPT !.adm.mounted = TRUE, !.reg = FALSE]
             m2 == IF Stale(m1.adm)
                   THEN CallScheduleUpdate(MintPending(m1))
                   ELSE m1
         IN [m2 EXCEPT !.ret = IF original THEN "original" ELSE "undefined"]

\* prototype.componentDidMount.  dev: __DEV__; ownHook: this.componentDidMount
\* is not the prototype's (it was assigned on the instance); original: the
\* class had a componentDidMount of its own, which runs last and whose value
\* is returned
componentDidMount(m, dev, ownHook, original) ==
    IF dev /\ ownHook
    THEN [m EXCEPT !.thrown = "Error"]
    ELSE LET m1 == [m EXCEPT !.adm.mounted = TRUE, !.reg = FALSE]
             m2 == IF ~m1.adm.reaction.exists \/ Stale(m1.adm)
                   THEN CallScheduleUpdate(MintPending(m1))
                   ELSE m1
         IN [m2 EXCEPT !.ret = IF original THEN "original" ELSE "undefined"]

\* the componentWillUnmount mixin calling admin.reaction.dispose() without ?.
componentWillUnmount_NoOptional(m, static) ==
    IF static
    THEN m
    ELSE LET m1 == dispose(m) IN
         IF m1.thrown # "none"
         THEN m1
         ELSE [m1 EXCEPT !.adm.reaction = NoReaction, !.adm.mounted = FALSE]

\* the componentWillUnmount mixin given to patch()
componentWillUnmount(m, static) ==
    IF static
    THEN m
    ELSE LET m1 == OptionalDispose(m) IN
         IF m1.thrown # "none"
         THEN m1
         ELSE [m1 EXCEPT !.adm.reaction = NoReaction, !.adm.mounted = FALSE]

\* reaction.track(fn): the reaction observes what fn read
track(m, reads) ==
    [m EXCEPT !.adm.reaction.observing = reads,
              !.adm.reaction.invalidated = FALSE]

\* reactiveRender that never assigns admin.stateVersion
reactiveRender_NoCommit(m, reads, throws) ==
    LET m1 == IF ~m.adm.reaction.exists
              THEN [m EXCEPT !.adm.reaction = [exists |-> TRUE, observing |-> {},
                                                  invalidated |-> FALSE],
                             !.reg = IF ~m.adm.mounted THEN TRUE ELSE @]
              ELSE m
        m2 == track(m1, reads)
    IN IF throws = "none"
       THEN [m2 EXCEPT !.ret = "renderResult"]
       ELSE [m2 EXCEPT !.raised = throws,
                       !.thrown = IF throws = "falsy" THEN "none" ELSE throws]

\* reactiveRender registering every new reaction, mounted or not
reactiveRender_NoMountedTest(m, reads, throws) ==
    LET m1 == IF ~m.adm.reaction.exists
              THEN [m EXCEPT !.adm.reaction = [exists |-> TRUE, observing |-> {},
                                                  invalidated |-> FALSE],
                             !.reg = TRUE]
              ELSE m
        m2 == track(m1, reads)
    IN IF throws = "none"
       THEN [m2 EXCEPT !.adm.stateVersion = m2.adm.pendingStateVersion,
                       !.ret = "renderResult"]
       ELSE [m2 EXCEPT !.raised = throws,
                       !.thrown = IF throws = "falsy" THEN "none" ELSE throws]

\* reactiveRender; the original render reads the atoms `reads` and either
\* returns or raises `throws`, which the catch clause stores in error; the
\* test `if (error)` rethrows it unless it is falsy, and then reactiveRender
\* returns renderResult, still undefined
reactiveRender(m, reads, throws) ==
    LET m1 == IF ~m.adm.reaction.exists
              THEN [m EXCEPT !.adm.reaction = [exists |-> TRUE, observing |-> {},
                                                  invalidated |-> FALSE],
                             !.reg = IF ~m.adm.mounted THEN TRUE ELSE @]
              ELSE m
        m2 == track(m1, reads)
    IN IF throws = "none"
       THEN [m2 EXCEPT !.adm.stateVersion = m2.adm.pendingStateVersion,
                       !.ret = "renderResult"]
       ELSE [m2 EXCEPT !.raised = throws,
                       !.thrown = IF throws = "falsy" THEN "none" ELSE throws]

\* prototype.render: the first call on an instance defines the instance's
\* own render, not configurable and not writable - the original render under
\* static rendering, else reactiveRender - and calls it; every later call
\* of render goes to that own property, whatever isUsingStaticRendering()
\* says by then
render(m, reads, throws, static) ==
    LET m1 == IF m.own = "none"
              THEN [m EXCEPT !.own = IF static THEN "original" ELSE "reactive"]
              ELSE m
    IN IF m1.own = "original"
       THEN [m1 EXCEPT !.raised = throws,
                       !.thrown = throws,
                       !.ret = IF throws = "none"
                               THEN "renderResult" ELSE "undefined"]
       ELSE reactiveRender(m1, reads, throws)

\* the cleanup callback of observerFinalizationRegistry
finalize(m) ==
    [OptionalDispose(m) EXCEPT !.adm.reaction = NoReaction, !.reg = FALSE]

-----------------------------------------------------------------------------
(* History.  A history records what happened and is read by properties    *)
(* only; no handler reads one.  The value of the observable (which a       *)
(* render copies to out.seen) and the log of the store are recorded only   *)
(* in the specifications that name them in tracked.                        *)

Min(a, b) == IF a < b THEN a ELSE b

NoMount ==
    [ active |-> FALSE, reaction |-> FALSE, sched |-> FALSE,
      regs |-> 0, notifies |-> 0 ]

\* From a componentDidMount that resynchronized (no reaction, or stale) up to
\* the next render or unmount: whether the instance had a reaction and a
\* notify callback when the hook began, the setScheduleUpdate calls since,
\* and the notify calls made by the hook and since
SinceMount(op, m) ==
    IF op = "mount" /\ m.thrown = "none"
    THEN IF ~admin.reaction.exists \/ Stale(admin)
         THEN [ active |-> TRUE, reaction |-> admin.reaction.exists,
                sched |-> admin.scheduleUpdate,
                regs |-> 0, notifies |-> Len(m.notified) ]
         ELSE NoMount
    ELSE IF op \in {"render", "unmount"}
    THEN NoMount
    ELSE IF sinceMount.active
    THEN [sinceMount EXCEPT
            !.regs = IF op = "setScheduleUpdate" THEN Min(@ + 1, MaxCount) ELSE @,
            !.notifies = Min(@ + Len(m.notified), MaxCount)]
    ELSE sinceMount

\* the events that invalidate the instance: the reaction callback ran, an
\* unclassified input write was not shallowly equal, observerSCU returned
\* true, componentDidMount resynchronized
Invalidates(op, key, a, m) ==
    \/ m.fired
    \/ /\ op = "set"
       /\ a \notin admin.changedVariables
       /\ a \notin admin.unchangedVariables
       /\ ~shallowEqual(admin[key], a)
    \/ op = "shouldComponentUpdate" /\ m.ret = "true"
    \/ /\ op = "mount"
       /\ m.thrown = "none"
       /\ ~admin.reaction.exists \/ Stale(admin)

Unconsumed(op, key, a, m) ==
    IF op = "render" /\ m.raised = "none"
    THEN FALSE
    ELSE unconsumed \/ Invalidates(op, key, a, m)

NoCommit ==
    [ phase |-> "none", props |-> Undefined, state |-> Undefined,
      clean |-> FALSE, fresh |-> FALSE ]

\* The host framework's order of an update: observerSCU(nextProps,
\* nextState), directly followed by this.props = nextProps, directly followed
\* by this.state = nextState.  phase is the last of these steps made; clean:
\* changedVariables and unchangedVariables were empty when observerSCU
\* began; fresh: neither nextProps nor nextState was in changedVariables then
Commit(op, key, a, b) ==
    IF op = "shouldComponentUpdate"
    THEN [ phase |-> "scu", props |-> a, state |-> b,
           clean |-> /\ admin.changedVariables = {}
                     /\ admin.unchangedVariables = {},
           fresh |-> /\ a \notin admin.changedVariables
                     /\ b \notin admin.changedVariables ]
    ELSE IF /\ op = "set"
            /\ key = "props"
            /\ commit.phase = "scu"
            /\ a = commit.props
    THEN [commit EXCEPT !.phase = "props"]
    ELSE IF /\ op = "set"
            /\ key = "state"
            /\ commit.phase = "props"
            /\ a = commit.state
    THEN [commit EXCEPT !.phase = "state"]
    ELSE NoCommit

-----------------------------------------------------------------------------
(* The component instance *)

Start == Machine(admin, nextSymbol, registered, ownRender, store)

\* whether the value written was in changedVariables / unchangedVariables
Marked(adm, op, value) ==
    IF op # "set" THEN "none"
    ELSE IF value \in adm.changedVariables
         THEN IF value \in adm.unchangedVariables THEN "both" ELSE "changed"
         ELSE IF value \in adm.unchangedVariables THEN "unchanged" ELSE "none"

\* out: the call (op, key, a, b); the instance when the call began (stale,
\* had a reaction, the markers of the value written); what the call did
NoCall ==
    [ op |-> "none", key |-> "none", a |-> Undefined, b |-> Undefined,
      stale |-> FALSE, had |-> FALSE, marked |-> "none",
      notified |-> <<>>, reported |-> {}, fired |-> FALSE,
      raised |-> "none", thrown |-> "none", ret |-> "undefined",
      heard |-> Silent, forwarded |-> NotForwarded, seen |-> {} ]

\* the handler call op(key, a, b) took the machine from Start to m; seen is
\* what a render read from flag
Apply(op, key, a, b, m, seen) ==
    /\ m.sym <= MaxSymbols
    /\ admin' = m.adm
    /\ nextSymbol' = m.sym
    /\ registered' = m.reg
    /\ out' = [ op |-> op, key |-> key, a |-> a, b |-> b,
                stale |-> Stale(admin), had |-> admin.reaction.exists,
                marked |-> Marked(admin, op, a), notified |-> m.notified,
                reported |-> m.reported, fired |-> m.fired,
                raised |-> m.raised, thrown |-> m.thrown, ret |-> m.ret,
                heard |-> m.heard, forwarded |-> m.forwarded, seen |-> seen ]
    /\ sinceMount' = SinceMount(op, m)
    /\ unconsumed' = Unconsumed(op, key, a, m)
    /\ commit' = Commit(op, key, a, b)
    /\ ownRender' = m.own
    /\ store' = m.store
    /\ UNCHANGED <<tracked, staticRendering, devBuild, storeLog, wrap>>

\* this[key] = value
Set(key, value) ==
    /\ Apply("set", key, value, Undefined, SetInput(Start, key, value), {})
    /\ UNCHANGED flag

\* shouldComponentUpdate(nextProps, nextState)
ShouldComponentUpdate(nextProps, nextState) ==
    /\ Apply("shouldComponentUpdate", "none", nextProps, nextState,
             observerSCU(Start, nextProps, nextState), {})
    /\ UNCHANGED flag

\* render(), whose original render reads the atoms in reads and returns or
\* raises throws
Render(reads, throws) ==
    /\ Apply("render", "none", Undefined, Undefined,
             render(Start, reads, throws, staticRendering),
             IF "ext" \in reads THEN {flag} ELSE {})
    /\ UNCHANGED flag

\* prototype.componentDidMount is called on the instance
Mount(ownHook, original) ==
    /\ Apply("mount", "none", Undefined, Undefined,
             componentDidMount(Start, devBuild, ownHook, original), {})
    /\ UNCHANGED flag

Unmount ==
    /\ Apply("unmount", "none", Undefined, Undefined,
             componentWillUnmount(Start, staticRendering), {})
    /\ UNCHANGED flag

\* the host calls the ref callback of the wrapper, setRef(instance), with
\* the instance or (the ref is detached) with null; with null and no ref of
\* the caller the call does nothing
SetRef(instance, ref) ==
    IF ~instance /\ ref = "none"
    THEN UNCHANGED vars
    ELSE /\ Apply(IF instance THEN "setScheduleUpdate" ELSE "setRef",
                  "none", Undefined, Undefined,
                  setRef(Start, instance, ref, staticRendering), {})
         /\ UNCHANGED flag

\* the finalization registry cleans up a registered instance
Finalize ==
    /\ registered
    /\ Apply("finalize", "none", Undefined, Undefined, finalize(Start), {})
    /\ UNCHANGED flag

\* external code changes the observable flag
Change ==
    /\ Apply("change", "ext", Undefined, Undefined, reportChanged(Start, "ext"), {})
    /\ flag' = IF "flag" \in tracked THEN ~flag ELSE flag

-----------------------------------------------------------------------------
(* MobxObserverStore *)

\* the last LogLen calls
Logged(entry) ==
    LET log == Append(storeLog, entry) IN
    IF "storeLog" \notin tracked
    THEN <<>>
    ELSE IF Len(log) > LogLen
    THEN SubSeq(log, Len(log) - LogLen + 1, Len(log))
    ELSE log

InstanceUnchanged ==
    UNCHANGED <<admin, staticRendering, registered, flag, nextSymbol, out,
                sinceMount, unconsumed, commit, tracked, ownRender, devBuild>>

\* a call on the store by one of its users leaves the instance alone and is
\* the last call made
StoreCall(op) ==
    /\ out' = [NoCall EXCEPT !.op = op]
    /\ UNCHANGED <<admin, staticRendering, registered, flag, nextSymbol,
                   sinceMount, unconsumed, commit, tracked, ownRender,
                   devBuild, wrap>>

StoreSetValue(token) ==
    LET r == setValue(store, token) IN
    /\ store' = r.store
    /\ storeLog' = Logged([op |-> "setValue", token |-> token, listener |-> 0,
                           before |-> store, heard |-> r.heard])
    /\ StoreCall("setValue")

StoreGetValue ==
    /\ storeLog' = Logged([op |-> "getValue", token |-> getValue(store),
                           listener |-> 0, before |-> store, heard |-> Silent])
    /\ StoreCall("getValue")
    /\ UNCHANGED store

StoreSubscribe(listener) ==
    /\ store' = subscribe(store, listener)
    /\ storeLog' = Logged([op |-> "subscribe", token |-> store.value,
                           listener |-> listener, before |-> store,
                           heard |-> Silent])
    /\ StoreCall("subscribe")

StoreUnsubscribe(listener) ==
    /\ listener \in store.closures
    /\ store' = unsubscribe(store, listener)
    /\ storeLog' = Logged([op |-> "unsubscribe", token |-> store.value,
                           listener |-> listener, before |-> store,
                           heard |-> Silent])
    /\ StoreCall("unsubscribe")

-----------------------------------------------------------------------------
(* observer() and makeClassComponentObserver() *)

\* the component handed to observer(): a class component with its prototype
\* (componentWillReact present, shouldComponentUpdate, render and what
\* makeClassComponentObserver installs) and its direct base class, or a
\* function component; declared: the render the class was written with;
\* render: that render ("function", "missing"), the wrapper installed over it
\* ("reactive"), or a wrapper installed over a wrapper ("nested", whose
\* Object.defineProperty of the instance's render is made twice);
\* wrapped: observer() has returned a wrapper for it, which carries
\* isMobXReactObserverSymbol; last: the last observer() call, and whether a
\* wrapper had been returned before it (was)
Component(isClass, base, cwr, scu, rnd) ==
    [ isClass |-> isClass, base |-> base, componentWillReact |-> cwr,
      shouldComponentUpdate |-> scu, render |-> rnd, declared |-> rnd,
      setScheduleUpdate |-> FALSE, observable |-> FALSE,
      wrapped |-> FALSE, instances |-> 0,
      last |-> [target |-> "none", context |-> "none", result |-> "none",
                was |-> FALSE] ]

NoWrap == Component(FALSE, "none", FALSE, "none", "none")

ConfigErrors ==
    { "decoratorKind", "alreadyObserver", "componentWillReact",
      "shouldComponentUpdate", "PureComponent", "missingRender" }

Throw(w, error) == [w EXCEPT !.last.result = error]

\* makeClassComponentObserver without the typeof originalRender test
makeClassComponentObserver_NoRenderTest(w) ==
    LET w1 == [w EXCEPT !.setScheduleUpdate = TRUE] IN
    IF w1.componentWillReact
    THEN Throw(w1, "componentWillReact")
    ELSE IF w1.base = "PureComponent"
    THEN Throw(w1, "PureComponent")
    ELSE IF w1.shouldComponentUpdate \notin {"none", "observerSCU"}
    THEN Throw(w1, "shouldComponentUpdate")
    ELSE [w1 EXCEPT !.shouldComponentUpdate = "observerSCU",
                    !.observable = TRUE,
                    !.render = IF @ \in {"reactive", "nested"}
                               THEN "nested" ELSE "reactive",
                    !.wrapped = TRUE,
                    !.last.result = "ok"]

makeClassComponentObserver(w) ==
    LET w1 == [w EXCEPT !.setScheduleUpdate = TRUE] IN
    IF w1.componentWillReact
    THEN Throw(w1, "componentWillReact")
    ELSE IF w1.base = "PureComponent"
    THEN Throw(w1, "PureComponent")
    ELSE IF w1.shouldComponentUpdate \notin {"none", "observerSCU"}
    THEN Throw(w1, "shouldComponentUpdate")
    ELSE LET w2 == [w1 EXCEPT !.shouldComponentUpdate = "observerSCU",
                              !.observable = TRUE] IN
         IF w2.render \notin {"function", "reactive", "nested"}
         THEN Throw(w2, "missingRender")
         ELSE [w2 EXCEPT !.render = IF @ = "function"
                                    THEN "reactive" ELSE "nested",
                         !.wrapped = TRUE,
                         !.last.result = "ok"]

\* observer(component, context): target is the component itself or the
\* wrapper an earlier call returned for it
observer(w, target, context) ==
    LET w0 == [w EXCEPT !.last = [target |-> target, context |-> context,
                                  result |-> "none", was |-> w.wrapped]] IN
    IF context \notin {"none", "class"}
    THEN Throw(w0, "decoratorKind")
    ELSE IF target = "wrapper"
    THEN Throw(w0, "alreadyObserver")
    ELSE IF w0.isClass
    THEN makeClassComponentObserver(w0)
    ELSE [w0 EXCEPT !.wrapped = TRUE, !.last.result = "ok"]

Observer(target, context) ==
    /\ target = "wrapper" => wrap.wrapped
    /\ wrap' = observer(wrap, target, context)
    /\ InstanceUnchanged
    /\ UNCHANGED <<store, storeLog>>

\* the wrapper renders: createElement(componentClass, ...)
CreateInstance ==
    /\ wrap.wrapped
    /\ wrap.instances < MaxInstances
    /\ wrap' = [wrap EXCEPT !.instances = @ + 1]
    /\ InstanceUnchanged
    /\ UNCHANGED <<store, storeLog>>

-----------------------------------------------------------------------------
(* Specifications *)


InitInstance ==
    /\ admin = getAdministration
    /\ registered = FALSE
    /\ flag = FALSE
    /\ nextSymbol = 0
    /\ out = NoCall
    /\ sinceMount = NoMount
    /\ unconsumed = FALSE
    /\ commit = NoCommit
    /\ ownRender = "none"

InitProgram ==
    /\ InitInstance
    /\ staticRendering = FALSE
    /\ store = NewStore
    /\ storeLog = <<>>
    /\ wrap = NoWrap

Init ==
    /\ InitProgram
    /\ devBuild = TRUE
    /\ tracked = {}

\* a development or a production build
InitLifecycle ==
    /\ InitProgram
    /\ devBuild \in BOOLEAN
    /\ tracked = {"flag"}

InitStore ==
    /\ InitProgram
    /\ devBuild = TRUE
    /\ tracked = {"storeLog"}

Next ==
    \/ \E key \in Keys, value \in Values : Set(key, value)
    \/ \E nextProps \in Values, nextState \in Values :
          ShouldComponentUpdate(nextProps, nextState)
    \/ \E reads \in AllOrNone, throws \in Raised : Render(reads, throws)
    \/ \E ownHook \in BOOLEAN, original \in BOOLEAN : Mount(ownHook, original)
    \/ Unmount
    \/ \E instance \in BOOLEAN : SetRef(instance, "none")
    \/ Finalize
    \/ Change

\* a component instance under interactive rendering whose render reads all
\* observables or none, whose wrapper was given no ref and whose store has
\* no subscriber yet
Spec == Init /\ [][Next]_vars

InitStatic ==
    /\ InitInstance
    /\ staticRendering = TRUE
    /\ store = NewStore
    /\ storeLog = <<>>
    /\ wrap = NoWrap
    /\ devBuild = TRUE
    /\ tracked = {}

\* enableStaticRendering(enable)
EnableStaticRendering(enable) ==
    /\ staticRendering' = enable
    /\ out' = [NoCall EXCEPT !.op = "enableStaticRendering"]
    /\ UNCHANGED <<admin, registered, flag, nextSymbol, sinceMount,
                   unconsumed, commit, tracked, ownRender, devBuild, store,
                   storeLog, wrap>>

NextStatic ==
    \/ \E reads \in ReadSets, throws \in Raised : Render(reads, throws)
    \/ \E ownHook \in BOOLEAN, original \in BOOLEAN : Mount(ownHook, original)
    \/ Unmount
    \/ \E instance \in BOOLEAN : SetRef(instance, "none")
    \/ Finalize
    \/ Change
    \/ \E enable \in BOOLEAN : EnableStaticRendering(enable)

\* a component instance of a process that starts under static (server-side)
\* rendering and may switch it off and on, driven by render, mount,
\* unmount, registration of the notify callback, the finalization registry
\* and changes of the observable
SpecStatic == InitStatic /\ [][NextStatic]_vars

NextLifecycle ==
    \/ \E reads \in ReadSets, throws \in Raised : Render(reads, throws)
    \/ \E ownHook \in BOOLEAN, original \in BOOLEAN : Mount(ownHook, original)
    \/ Unmount
    \/ \E instance \in BOOLEAN, ref \in Refs : SetRef(instance, ref)
    \/ Change
    \/ \E listener \in Listeners : StoreSubscribe(listener)
    \/ \E listener \in Listeners : StoreUnsubscribe(listener)

\* a component instance driven by render, mount, unmount, registration of
\* the notify callback and changes of the observable only, with the value
\* of the observable, any ref of the wrapper's caller and the subscribers of
\* the wrapper's store
SpecLifecycle == InitLifecycle /\ [][NextLifecycle]_vars

NextStore ==
    \/ \E token \in Symbols : StoreSetValue(token)
    \/ StoreGetValue
    \/ \E listener \in Listeners : StoreSubscribe(listener)
    \/ \E listener \in Listeners : StoreUnsubscribe(listener)

\* a MobxObserverStore and its callers
SpecStore == InitStore /\ [][NextStore]_vars

InitWrap ==
    /\ InitInstance
    /\ staticRendering = FALSE
    /\ store = NewStore
    /\ storeLog = <<>>
    /\ devBuild = TRUE
    /\ tracked = {}
    /\ \/ wrap = Component(FALSE, "none", FALSE, "none", "none")
       \/ \E base \in {"Component", "PureComponent"},
             cwr \in BOOLEAN,
             scu \in {"none", "user", "observerSCU"},
             rnd \in {"function", "missing"} :
             wrap = Component(TRUE, base, cwr, scu, rnd)

NextWrap ==
    \/ \E target \in {"component", "wrapper"},
          context \in {"none", "class", "method"} : Observer(target, context)
    \/ CreateInstance

\* observer() applied to a component
SpecWrap == InitWrap /\ [][NextWrap]_vars

-----------------------------------------------------------------------------
(* Claims *)

\* C1. Mount resynchronization: when componentDidMount runs (past its
\* development test of where the hook is defined) on an instance that has a
\* reaction and is stale (invalidated after the render), then,
\* counted over the hook and one setScheduleUpdate call in either order
\* (callback registered before the hook and no call since, or not registered
\* before and one call since), scheduleUpdate has been invoked exactly once,
\* and this stays so until the next render or unmount; before the callback
\* is registered nothing is invoked.
C1_MountResync ==
    (sinceMount.active /\ sinceMount.reaction) =>
        /\ (sinceMount.sched /\ sinceMount.regs = 0) => sinceMount.notifies = 1
        /\ (~sinceMount.sched /\ sinceMount.regs = 1) => sinceMount.notifies = 1
        /\ (~sinceMount.sched /\ sinceMount.regs = 0) => sinceMount.notifies = 0

\* a stale instance was mounted before its callback was registered, the
\* callback was then registered and invoked once, and a later change of the
\* observed flag did not invoke it again
C1_Witness ==
    /\ sinceMount.active
    /\ sinceMount.reaction
    /\ ~sinceMount.sched
    /\ sinceMount.regs = 1
    /\ sinceMount.notifies = 1
    /\ out.op = "change"
    /\ out.fired

\* C2. Basic reactivity: on a mounted, registered, in-sync instance whose
\* reaction observes the flag, a change of the flag invokes scheduleUpdate
\* exactly once, with a freshly minted pending version; a change arriving
\* while the instance is stale invokes nothing and mints nothing; a render
\* that reads the flag sees its current value.
C2_BasicReactivity ==
    [][ /\ ( /\ out'.op = "change"
             /\ admin.mounted
             /\ admin.scheduleUpdate
             /\ ~Stale(admin)
             /\ admin.reaction.exists
             /\ "ext" \in admin.reaction.observing )
           => /\ out'.notified =
                    << [token |-> admin'.pendingStateVersion, mounted |-> TRUE] >>
              /\ admin'.pendingStateVersion = nextSymbol + 1
              /\ nextSymbol' = nextSymbol + 1
              /\ admin'.stateVersion = admin.stateVersion
        /\ (out'.op = "change" /\ Stale(admin))
           => /\ out'.notified = << >>
              /\ admin'.pendingStateVersion = admin.pendingStateVersion
        /\ ( /\ out'.op = "render"
             /\ out'.raised = "none"
             /\ "ext" \in admin'.reaction.observing )
           => out'.seen = {flag'}
      ]_vars

\* the flag changed on a mounted, registered, in-sync instance and the
\* callback was invoked
C2_Witness ==
    /\ out.op = "change"
    /\ ~out.stale
    /\ Len(out.notified) = 1
    /\ admin.mounted
    /\ flag = TRUE

\* C3. After a render whose original render returned, stateVersion =
\* pendingStateVersion.
C3_RenderCatchesUp ==
    (out.op = "render" /\ out.raised = "none") => ~Stale(admin)

\* a mounted instance was stale when render began, and render returned
C3_Witness ==
    /\ out.op = "render"
    /\ out.raised = "none"
    /\ out.thrown = "none"
    /\ out.stale
    /\ admin.mounted

\* C4. scheduleUpdate is only invoked while admin.mounted is true: every
\* invocation made by a call saw mounted = TRUE, and a call that leaves the
\* instance unmounted has invoked nothing.
C4_NoUpdateWhenUnmounted ==
    /\ \A i \in 1..Len(out.notified) : out.notified[i].mounted
    /\ ~admin.mounted => out.notified = << >>

\* the reaction callback ran on an in-sync, unmounted instance with a
\* registered callback, and the callback was not invoked
C4_Witness ==
    /\ out.fired
    /\ ~out.stale
    /\ ~admin.mounted
    /\ admin.scheduleUpdate
    /\ out.notified = << >>

\* C5. pendingStateVersion = stateVersion iff no invalidation (reaction
\* callback run, unclassified input write that is not shallowly equal,
\* observerSCU returning true, componentDidMount resynchronizing) has
\* happened since the last render that returned.
C5_VersionInvariant ==
    ~Stale(admin) <=> ~unconsumed

\* observerSCU returned true and left the instance stale
C5_Witness ==
    /\ out.op = "shouldComponentUpdate"
    /\ out.ret = "true"
    /\ ~out.stale
    /\ unconsumed
    /\ Stale(admin)

\* C6, as claimed: observerSCU called with a new props object shallowly equal
\* to the current props returns false, and the assignment of that object to
\* props right after does not report the props atom changed.
C6_Original ==
    [][ /\ ( /\ out'.op = "shouldComponentUpdate"
             /\ out'.a # admin.props
             /\ shallowEqual(admin.props, out'.a) )
           => out'.ret = "false"
        /\ ( /\ out.op = "shouldComponentUpdate"
             /\ out.a # admin.props
             /\ shallowEqual(admin.props, out.a)
             /\ out'.op = "set"
             /\ out'.key = "props"
             /\ out'.a = out.a )
           => "props" \notin out'.reported
      ]_vars

\* C6, amended: observerSCU called with a new props object shallowly equal to
\* the current props, a next state shallowly equal to the current state, on
\* an instance that is not stale, returns false, mints nothing and marks the
\* props object unchanged; whatever observerSCU returned for such a props
\* object, its assignment to props right after reports no atom changed and
\* mints nothing, unless the object is also in changedVariables.
C6_ShallowEqualProps ==
    [][ /\ ( /\ out'.op = "shouldComponentUpdate"
             /\ out'.a # admin.props
             /\ shallowEqual(admin.props, out'.a)
             /\ shallowEqual(admin.state, out'.b)
             /\ ~Stale(admin) )
           => /\ out'.ret = "false"
              /\ admin'.pendingStateVersion = admin.pendingStateVersion
              /\ out'.a \in admin'.unchangedVariables
        /\ ( /\ out.op = "shouldComponentUpdate"
             /\ out.a # admin.props
             /\ shallowEqual(admin.props, out.a)
             /\ out.a \notin admin.changedVariables
             /\ out'.op = "set"
             /\ out'.key = "props"
             /\ out'.a = out.a )
           => /\ out'.reported = {}
              /\ admin'.pendingStateVersion = admin.pendingStateVersion
              /\ admin'.props = out.a
      ]_vars

\* observerSCU has returned false for a new, shallowly equal props object
C6_Witness ==
    /\ out.op = "shouldComponentUpdate"
    /\ out.ret = "false"
    /\ out.a # admin.props
    /\ shallowEqual(admin.props, out.a)
    /\ out.a \in admin.unchangedVariables
    /\ out.a \notin admin.changedVariables

\* C7, as claimed: writing a value that is in unchangedVariables leaves
\* pendingStateVersion unchanged and reports no atom changed; only the
\* cached value and the marker change.
C7_Original ==
    [][ (out'.op = "set" /\ out'.a \in admin.unchangedVariables)
        => /\ out'.reported = {}
           /\ admin' = [admin EXCEPT ![out'.key] = out'.a,
                                     !.unchangedVariables = @ \ {out'.a}]
      ]_vars

\* C7, amended: writing to props, state or context a value that is in
\* unchangedVariables and not in changedVariables leaves pendingStateVersion
\* unchanged and reports no atom changed; only the cached value and the
\* marker change, and scheduleUpdate is not invoked.
C7_NoOpWrite ==
    [][ ( /\ out'.op = "set"
          /\ out'.a \in admin.unchangedVariables
          /\ out'.a \notin admin.changedVariables )
        => /\ out'.reported = {}
           /\ out'.notified = << >>
           /\ nextSymbol' = nextSymbol
           /\ admin' = [admin EXCEPT ![out'.key] = out'.a,
                                     !.unchangedVariables = @ \ {out'.a}]
      ]_vars

\* a value marked unchanged only, and not shallowly equal to the cached
\* context, has been written to context
C7_Witness ==
    /\ out.op = "set"
    /\ out.key = "context"
    /\ out.marked = "unchanged"
    /\ out.reported = {}
    /\ admin.context = out.a
    /\ out.a \notin admin.unchangedVariables

\* C9, as claimed: componentWillUnmount never raises and leaves the instance
\* without a reaction and with mounted = FALSE, also when it began without a
\* reaction (never created, or disposed by the preceding
\* componentWillUnmount).
C9_Original ==
    out.op = "unmount" =>
        /\ out.thrown = "none"
        /\ ~admin.reaction.exists
        /\ ~admin.mounted
        /\ out.notified = << >>

\* C9, amended: componentWillUnmount never raises and invokes no callback;
\* called while isUsingStaticRendering() is false it leaves the instance
\* without a reaction and with mounted = FALSE, also when it began without a
\* reaction (never created, or disposed by the preceding
\* componentWillUnmount); called while isUsingStaticRendering() is true it
\* leaves the administration record, the reaction and the registration as
\* they were.
C9_UnmountIdempotent ==
    [][ out'.op = "unmount"
        => /\ out'.thrown = "none"
           /\ out'.notified = << >>
           /\ IF staticRendering
              THEN /\ admin' = admin
                   /\ registered' = registered
              ELSE /\ ~admin'.reaction.exists
                   /\ ~admin'.mounted
      ]_vars

\* under interactive rendering componentWillUnmount ran on an instance that
\* had been rendered and mounted, and ran again on the instance it had left
\* without a reaction
C9_Witness ==
    /\ out.op = "unmount"
    /\ ~out.had
    /\ out.thrown = "none"
    /\ ~staticRendering
    /\ ownRender = "reactive"
    /\ ~admin.reaction.exists
    /\ ~admin.mounted

\* C8. Two setValue calls in a row with the same token call each subscribed
\* listener once in total when the token differed from the stored one before
\* the first call, and the second call changes nothing; a setValue call with
\* the stored token leaves the store as it was and calls no listener.
C8_IdempotentNotification ==
    /\ \A i \in 1..Len(storeLog) :
          LET e == storeLog[i] IN
          (e.op = "setValue" /\ e.token = e.before.value)
          => /\ e.heard = Silent
             /\ (i = Len(storeLog) => store = e.before)
    /\ \A i \in 1..(Len(storeLog) - 1) :
          LET e1 == storeLog[i]
              e2 == storeLog[i + 1]
          IN (e1.op = "setValue" /\ e2.op = "setValue" /\ e1.token = e2.token)
             => \A l \in Listeners :
                   e1.heard[l] + e2.heard[l] =
                      IF l \in e1.before.listeners /\ e1.token # e1.before.value
                      THEN 1 ELSE 0

\* setValue was called twice in a row with a new token while two listeners
\* were subscribed
C8_Witness ==
    /\ Len(storeLog) = LogLen
    /\ storeLog[LogLen - 1].op = "setValue"
    /\ storeLog[LogLen].op = "setValue"
    /\ storeLog[LogLen - 1].token = storeLog[LogLen].token
    /\ storeLog[LogLen - 1].token # storeLog[LogLen - 1].before.value
    /\ storeLog[LogLen - 1].heard = [l \in Listeners |-> 1]
    /\ storeLog[LogLen].heard = Silent

\* C10. observer() applied to a class component whose prototype render is
\* not a function raises a configuration error (the missing-render error
\* when nothing else is wrong with the class), returns no wrapper, and no
\* instance of the component has been created.
C10_MissingRenderRejected ==
    ( /\ wrap.isClass
      /\ wrap.declared = "missing"
      /\ wrap.last.target = "component" )
    => /\ wrap.last.result \in ConfigErrors
       /\ ( /\ wrap.last.context \in {"none", "class"}
            /\ ~wrap.componentWillReact
            /\ wrap.base # "PureComponent"
            /\ wrap.shouldComponentUpdate = "observerSCU" )
          => wrap.last.result = "missingRender"
       /\ ~wrap.wrapped
       /\ wrap.instances = 0

\* observer() has raised the missing-render error
C10_Witness ==
    /\ wrap.isClass
    /\ wrap.declared = "missing"
    /\ wrap.render = "missing"
    /\ wrap.last.target = "component"
    /\ wrap.last.result = "missingRender"
    /\ wrap.instances = 0

\* C11, as claimed: observer() applied to a class component that observer()
\* has already wrapped (the class itself again, or the wrapper returned for
\* it) raises a configuration error, whatever calls came before.
C11_DoubleWrapRejected ==
    (wrap.isClass /\ wrap.last.target # "none" /\ wrap.last.was)
    => wrap.last.result \in ConfigErrors

\* C12. observerSCU(nextProps, nextState) returns true exactly when the
\* props are not shallowly equal to nextProps, or the state is not shallowly
\* equal to nextState, or pendingStateVersion differs from stateVersion; when
\* it returns true pendingStateVersion is a newly minted symbol, when it
\* returns false pendingStateVersion is unchanged; stateVersion and the
\* cached inputs are unchanged either way.
C12_UpdateDecision ==
    [][ out'.op = "shouldComponentUpdate"
        => /\ out'.ret \in {"true", "false"}
           /\ (out'.ret = "true") <=>
                 \/ ~shallowEqual(admin.props, out'.a)
                 \/ ~shallowEqual(admin.state, out'.b)
                 \/ admin.pendingStateVersion # admin.stateVersion
           /\ out'.ret = "true" =>
                 /\ nextSymbol' = nextSymbol + 1
                 /\ admin'.pendingStateVersion = nextSymbol'
                 /\ admin'.pendingStateVersion # admin.pendingStateVersion
           /\ out'.ret = "false" =>
                 /\ nextSymbol' = nextSymbol
                 /\ admin'.pendingStateVersion = admin.pendingStateVersion
           /\ admin'.stateVersion = admin.stateVersion
           /\ admin'.props = admin.props
           /\ admin'.state = admin.state
      ]_vars

\* observerSCU was called on a stale instance with shallowly equal props and
\* state, returned true and minted a pending version
C12_Witness ==
    /\ out.op = "shouldComponentUpdate"
    /\ out.stale
    /\ shallowEqual(admin.props, out.a)
    /\ shallowEqual(admin.state, out.b)
    /\ out.ret = "true"
    /\ admin.pendingStateVersion = nextSymbol
    /\ nextSymbol = MaxSymbols

\* C13, as claimed: a write of value v to the input key updates the cached
\* value and, by the first case that applies: v in changedVariables - the
\* atom is reported changed and pendingStateVersion is unchanged; v in
\* unchangedVariables - nothing else; v not shallowly equal to the cached
\* value - a new pendingStateVersion is minted and the atom is reported
\* changed; otherwise nothing else.
C13_Original ==
    [][ out'.op = "set"
        => /\ admin'[out'.key] = out'.a
           /\ IF out'.a \in admin.changedVariables
              THEN /\ out'.reported = {out'.key}
                   /\ admin'.pendingStateVersion = admin.pendingStateVersion
              ELSE IF out'.a \in admin.unchangedVariables
              THEN /\ out'.reported = {}
                   /\ admin'.pendingStateVersion = admin.pendingStateVersion
              ELSE IF ~shallowEqual(admin[out'.key], out'.a)
              THEN /\ out'.reported = {out'.key}
                   /\ nextSymbol' = nextSymbol + 1
                   /\ admin'.pendingStateVersion = nextSymbol'
              ELSE /\ out'.reported = {}
                   /\ admin'.pendingStateVersion = admin.pendingStateVersion
      ]_vars

\* C13, amended: as claimed, except that in the first case (v in
\* changedVariables) reporting the atom changed runs the reaction callback
\* when the reaction observes that atom and has not been invalidated since
\* it last tracked, and this callback mints a new
\* pendingStateVersion when the instance is not stale; the setter itself
\* mints none, and pendingStateVersion is unchanged when the instance is
\* stale or the reaction does not observe the atom.  stateVersion is never
\* changed by a write.
C13_WriteClassification ==
    [][ out'.op = "set"
        => /\ admin'[out'.key] = out'.a
           /\ admin'.stateVersion = admin.stateVersion
           /\ IF out'.a \in admin.changedVariables
              THEN /\ out'.reported = {out'.key}
                   /\ out'.fired <=> /\ admin.reaction.exists
                                     /\ out'.key \in admin.reaction.observing
                                     /\ ~admin.reaction.invalidated
                   /\ IF out'.fired /\ ~Stale(admin)
                      THEN /\ nextSymbol' = nextSymbol + 1
                           /\ admin'.pendingStateVersion = nextSymbol'
                      ELSE /\ nextSymbol' = nextSymbol
                           /\ admin'.pendingStateVersion =
                                 admin.pendingStateVersion
              ELSE IF out'.a \in admin.unchangedVariables
              THEN /\ out'.reported = {}
                   /\ nextSymbol' = nextSymbol
                   /\ admin'.pendingStateVersion = admin.pendingStateVersion
              ELSE IF ~shallowEqual(admin[out'.key], out'.a)
              THEN /\ out'.reported = {out'.key}
                   /\ nextSymbol' = nextSymbol + 1
                   /\ admin'.pendingStateVersion = nextSymbol'
              ELSE /\ out'.reported = {}
                   /\ nextSymbol' = nextSymbol
                   /\ admin'.pendingStateVersion = admin.pendingStateVersion
      ]_vars

\* a value marked changed was written to state on a stale instance whose
\* reaction observes the state atom: the atom was reported changed, the
\* callback ran and no pending version was minted
C13_Witness ==
    /\ out.op = "set"
    /\ out.key = "state"
    /\ out.marked = "changed"
    /\ out.stale
    /\ out.fired
    /\ out.reported = {"state"}
    /\ admin.state = out.a
    /\ out.a \notin admin.changedVariables
    /\ admin.pendingStateVersion = nextSymbol

\* C14. In every reachable state an instance that has a reaction and is not
\* mounted is registered in the finalization registry, and a mounted
\* instance is not registered; a render that created the reaction of an
\* unmounted instance leaves it registered, and componentDidMount leaves the
\* instance unregistered whatever its state was (a componentDidMount that
\* raises its development error for a hook assigned on the instance has
\* not mounted the instance and is no mount).
C14_SafetyNetCoverage ==
    /\ (admin.reaction.exists /\ ~admin.mounted) => registered
    /\ admin.mounted => ~registered
    /\ (out.op = "render" /\ ~out.had /\ ~admin.mounted) => registered
    /\ (out.op = "mount" /\ out.thrown = "none") => ~registered

\* after an unmount, a render created a new reaction for the unmounted
\* instance and registered it
C14_Witness ==
    /\ out.op = "render"
    /\ ~out.had
    /\ admin.reaction.exists
    /\ ~admin.mounted
    /\ registered
    /\ admin.scheduleUpdate
    /\ admin.stateVersion = MaxSymbols

\* C15, as claimed: when the original render raises, render raises the same
\* value to its caller, pendingStateVersion and stateVersion keep the values
\* they had before the render, the reaction created or reused stays in
\* place, and an instance that was stale before is stale after.
C15_RenderFailure ==
    [][ (out'.op = "render" /\ out'.raised # "none")
        => /\ out'.thrown = out'.raised
           /\ admin'.pendingStateVersion = admin.pendingStateVersion
           /\ admin'.stateVersion = admin.stateVersion
           /\ admin'.reaction.exists
           /\ Stale(admin) => Stale(admin')
      ]_vars

\* C16. componentDidMount, when it does not raise its development error,
\* on an instance without a reaction (unmounted and mounted again with no
\* render in between, or never rendered) mints a new
\* pendingStateVersion and invokes the registered scheduleUpdate once with
\* it, also when pendingStateVersion = stateVersion held before; the
\* instance then has no reaction until the next render, and when that render
\* comes (no unmount before it) and its original render returns, it creates
\* a reaction and leaves the instance mounted, with a reaction, and with
\* stateVersion = pendingStateVersion.
C16_RemountWithoutRender ==
    [][ /\ (out'.op = "mount" /\ out'.thrown = "none" /\ ~admin.reaction.exists)
           => /\ admin'.mounted
              /\ nextSymbol' = nextSymbol + 1
              /\ admin'.pendingStateVersion = nextSymbol'
              /\ admin'.stateVersion = admin.stateVersion
              /\ Stale(admin')
              /\ out'.notified =
                    IF admin.scheduleUpdate
                    THEN << [token |-> admin'.pendingStateVersion,
                             mounted |-> TRUE] >>
                    ELSE << >>
        /\ ( /\ sinceMount.active
             /\ ~sinceMount.reaction
             /\ out'.op = "render"
             /\ out'.raised = "none" )
           => /\ ~admin.reaction.exists
              /\ admin'.reaction.exists
              /\ admin'.mounted
              /\ admin'.stateVersion = admin'.pendingStateVersion
              /\ ~registered'
      ]_vars

\* an instance whose render had committed version 1 lost its reaction and
\* was mounted while in sync: version 2 was minted and passed to the callback
C16_Witness ==
    /\ out.op = "mount"
    /\ ~out.had
    /\ ~out.stale
    /\ admin.stateVersion = 1
    /\ admin.pendingStateVersion = 2
    /\ out.notified = << [token |-> 2, mounted |-> TRUE] >>
    /\ sinceMount.active
    /\ ~sinceMount.reaction

\* C17, as claimed: after observerSCU(nextProps, nextState) directly followed
\* by the writes of nextProps to props and of nextState to state, neither
\* changedVariables nor unchangedVariables contains a marker, whatever
\* observerSCU calls and writes came before.
C17_Original ==
    commit.phase = "state"
    => /\ admin.changedVariables = {}
       /\ admin.unchangedVariables = {}

\* C17, amended: a write of a value removes that value from changedVariables
\* when it is there, else from unchangedVariables when it is there, and
\* changes the two sets in no other way (a value in both sets stays in
\* unchangedVariables until it is written again); after an observerSCU call
\* that found both sets empty, directly followed by the writes of nextProps
\* to props and of nextState to state, both sets are empty again.
C17_SingleUseMarkers ==
    [][ /\ out'.op = "set"
           => IF out'.a \in admin.changedVariables
              THEN /\ admin'.changedVariables =
                         admin.changedVariables \ {out'.a}
                   /\ admin'.unchangedVariables = admin.unchangedVariables
              ELSE /\ admin'.changedVariables = admin.changedVariables
                   /\ admin'.unchangedVariables =
                         admin.unchangedVariables \ {out'.a}
        /\ (commit'.phase = "state" /\ commit'.clean)
           => /\ admin'.changedVariables = {}
              /\ admin'.unchangedVariables = {}
      ]_vars

\* observerSCU found both sets empty and marked two different objects, and
\* the two writes that followed consumed both markers
C17_Witness ==
    /\ commit.phase = "state"
    /\ commit.clean
    /\ commit.props # Undefined
    /\ commit.state # Undefined
    /\ commit.props # commit.state
    /\ admin.props = commit.props
    /\ admin.state = commit.state
    /\ admin.changedVariables = {}
    /\ admin.unchangedVariables = {}

\* C18. Over render, componentDidMount, componentWillUnmount,
\* setScheduleUpdate and changes of the observable in any order: whenever the
\* instance is mounted, has a scheduleUpdate callback and pendingStateVersion
\* differs from stateVersion, the last token passed to scheduleUpdate, which
\* is the token the wrapper's store holds, is the current
\* pendingStateVersion; setScheduleUpdate invokes the callback at
\* once, with pendingStateVersion, on a mounted stale instance, and does not
\* invoke it on an unmounted or in-sync instance.
C18_NoLostUpdate ==
    /\ (admin.mounted /\ admin.scheduleUpdate /\ Stale(admin))
       => store.value = admin.pendingStateVersion
    /\ out.op = "setScheduleUpdate"
       => out.notified =
             IF out.stale /\ admin.mounted
             THEN << [token |-> admin.pendingStateVersion, mounted |-> TRUE] >>
             ELSE << >>

\* the reaction was invalidated before the mount, componentDidMount minted
\* version 2 with no callback registered, and the callback registered
\* afterwards was invoked with it
C18_Witness ==
    /\ out.op = "setScheduleUpdate"
    /\ out.stale
    /\ out.had
    /\ admin.mounted
    /\ admin.pendingStateVersion = 2
    /\ out.notified = << [token |-> 2, mounted |-> TRUE] >>
    /\ store.value = 2
    /\ sinceMount.active
    /\ sinceMount.reaction
    /\ ~sinceMount.sched

\* C19. When the reaction callback runs while pendingStateVersion differs
\* from stateVersion it changes no field of the administration record (the
\* reaction it refers to is invalidated by then), mints
\* nothing and does not invoke scheduleUpdate: a change of the observable
\* that runs it on a stale instance leaves the record as it was, and an input
\* write that runs it on a stale instance, or after minting a version for an
\* unmarked value, leaves the record with what the setter alone did (the
\* cached value, the consumed marker, the version the setter minted).
C19_StaleInvalidationIgnored ==
    [][ /\ (out'.op = "change" /\ out'.fired /\ Stale(admin))
           => /\ admin' = [admin EXCEPT !.reaction.invalidated = TRUE]
              /\ nextSymbol' = nextSymbol
              /\ registered' = registered
              /\ out'.notified = << >>
        /\ ( /\ out'.op = "set"
             /\ out'.fired
             /\ Stale(admin) \/ out'.a \notin admin.changedVariables )
           => /\ out'.notified = << >>
              /\ IF out'.a \in admin.changedVariables
                 THEN /\ nextSymbol' = nextSymbol
                      /\ admin' = [admin EXCEPT
                                     ![out'.key] = out'.a,
                                     !.changedVariables = @ \ {out'.a},
                                     !.reaction.invalidated = TRUE]
                 ELSE /\ nextSymbol' = nextSymbol + 1
                      /\ admin' = [admin EXCEPT
                                     ![out'.key] = out'.a,
                                     !.pendingStateVersion = nextSymbol',
                                     !.reaction.invalidated = TRUE]
      ]_vars

\* the observable changed while a mounted instance with a callback was
\* stale: the reaction callback ran and the callback was not invoked
C19_Witness ==
    /\ out.op = "change"
    /\ out.fired
    /\ out.stale
    /\ admin.mounted
    /\ admin.scheduleUpdate
    /\ out.notified = << >>
    /\ Stale(admin)

\* C20, as claimed: when observerSCU(nextProps, nextState) is directly
\* followed by the writes of nextProps to props and of nextState to state,
\* neither write invokes scheduleUpdate.
C20_Original ==
    commit.phase \in {"props", "state"} => out.notified = << >>

\* C20, amended: when observerSCU(nextProps, nextState) is called with
\* neither value already in changedVariables and is directly followed by the
\* writes of nextProps to props and of nextState to state, neither write
\* invokes scheduleUpdate, also when the write reports its atom changed and
\* the reaction observes that atom: the instance is stale then, and the
\* reaction callback returns at once.
C20_NoFeedbackLoop ==
    [][ (commit'.phase \in {"props", "state"} /\ commit'.fresh)
        => /\ out'.notified = << >>
           /\ out'.fired => Stale(admin)
           /\ out'.reported # {} => Stale(admin)
      ]_vars

\* observerSCU marked new props changed on a mounted instance with a
\* callback; the write of those props reported the props atom changed, the
\* reaction callback ran, and the callback was not invoked
C20_Witness ==
    /\ commit.phase = "props"
    /\ commit.fresh
    /\ out.marked = "changed"
    /\ out.reported = {"props"}
    /\ out.fired
    /\ out.notified = << >>
    /\ admin.mounted
    /\ admin.scheduleUpdate
    /\ admin.props = commit.props

====
